---- MODULE Spec2Model ----
(***************************************************************************)
(* Media acquisition pipeline of tg-relay-rs: handler dispatch, the        *)
(* yt-dlp runner in a temporary workspace, concurrent classification of    *)
(* the produced files, selection of one file and its delivery.             *)
(*                                                                         *)
(* Text (file names, URLs, captured stderr) is a tuple of one-character    *)
(* strings, so that extensions, case folding, trimming, pattern matching   *)
(* and byte-wise ordering are computed the way the code computes them.     *)
(***************************************************************************)
EXTENDS Integers, Sequences, FiniteSets, TLC

\* ------------------------------------------------------------------ bounds
\* Most directory entries the external tool leaves in the workspace.
MaxEntries == 3
\* Longest file list handed directly to process_download_result.
MaxFiles == 3
\* Longest file list used to exercise the classification fan-out.
MaxFanOut == 9
\* Most pipeline runs in flight at the same time.
MaxRuns == 2
\* Most URL-like tokens in one incoming message text.
MaxTokens == 2

\* ------------------------------------------------------- characters, text
\* The printable ASCII characters by byte value, from 32 (space) to 126; the
\* three entries written as names stand for characters no text here uses.
AsciiPrintable ==
  <<" ","!","DQUOTE","#","$","%","&","'","(",")","*","+",",","-",".","/",
    "0","1","2","3","4","5","6","7","8","9",":",";","<","=",">","?","@",
    "A","B","C","D","E","F","G","H","I","J","K","L","M","N","O","P","Q",
    "R","S","T","U","V","W","X","Y","Z","[","BACKSLASH","]","^","_","GRAVE",
    "a","b","c","d","e","f","g","h","i","j","k","l","m","n","o","p","q",
    "r","s","t","u","v","w","x","y","z","{","|","}","~">>

\* The characters of the texts: printable ASCII, the ASCII control
\* characters that are white space ("VT" stands for the vertical tab), and
\* one character outside ASCII, U+212A KELVIN SIGN (written "KELVIN"), the
\* letter outside ASCII whose lower case is an ASCII letter.
Chars ==
  {AsciiPrintable[i] : i \in 1..Len(AsciiPrintable)}
    \cup {"\t", "\n", "VT", "\f", "\r", "KELVIN"}

\* Byte value of a character; for KELVIN SIGN the first byte (0xE2) of its
\* UTF-8 encoding, which orders it after every ASCII character.
CodeOf ==
  [c \in Chars |->
     IF c = "KELVIN" THEN 226
     ELSE IF c = "\t" THEN 9
     ELSE IF c = "\n" THEN 10
     ELSE IF c = "VT" THEN 11
     ELSE IF c = "\f" THEN 12
     ELSE IF c = "\r" THEN 13
     ELSE 31 + (CHOOSE i \in 1..Len(AsciiPrintable) : AsciiPrintable[i] = c)]

Code(c) == CodeOf[c]

IsUpper(c) == Code(c) >= 65 /\ Code(c) <= 90
IsLowerAlpha(c) == Code(c) >= 97 /\ Code(c) <= 122
IsDigit(c) == Code(c) >= 48 /\ Code(c) <= 57
\* char::is_whitespace (White_Space) on the characters of Chars
IsSpace(c) == c \in {" ", "\t", "\n", "VT", "\f", "\r"}

\* char::to_ascii_lowercase
LowerChar(c) == IF IsUpper(c) THEN AsciiPrintable[Code(c) + 32 - 31] ELSE c

\* str::to_ascii_lowercase: only A-Z change
ToAsciiLower(s) == [i \in 1..Len(s) |-> LowerChar(s[i])]

\* str::to_lowercase: the Unicode lower case; KELVIN SIGN becomes k
ToLower(s) ==
  [i \in 1..Len(s) |-> IF s[i] = "KELVIN" THEN "k" ELSE LowerChar(s[i])]

\* str::eq_ignore_ascii_case: equal once A-Z are lower-cased; a character
\* outside ASCII equals only itself
EqIgnoreAsciiCase(a, b) == ToAsciiLower(a) = ToAsciiLower(b)

\* s has lit at offset p (0-based): s[p+1 .. p+Len(lit)] = lit
HasAt(s, p, lit) ==
  /\ p + Len(lit) <= Len(s)
  /\ \A i \in 1..Len(lit) : s[p + i] = lit[i]

\* str::starts_with / str::contains
StartsWith(s, lit) == HasAt(s, 0, lit)
Contains(s, lit) == \E p \in 0..Len(s) : HasAt(s, p, lit)

\* str::trim: drop leading and trailing whitespace
RECURSIVE TrimStart(_)
TrimStart(s) ==
  IF s # <<>> /\ IsSpace(Head(s)) THEN TrimStart(Tail(s)) ELSE s

RECURSIVE TrimEnd(_)
TrimEnd(s) ==
  IF s # <<>> /\ IsSpace(s[Len(s)]) THEN TrimEnd(SubSeq(s, 1, Len(s) - 1)) ELSE s

Trim(s) == TrimEnd(TrimStart(s))

\* Ord for Path within one directory: byte-wise comparison of the file names.
RECURSIVE PathLess(_, _)
PathLess(a, b) ==
  IF a = <<>> THEN b # <<>>
  ELSE IF b = <<>> THEN FALSE
  ELSE IF Code(Head(a)) # Code(Head(b)) THEN Code(Head(a)) < Code(Head(b))
  ELSE PathLess(Tail(a), Tail(b))

\* ------------------------------------------------------------ media kinds
Video == "Video"
Image == "Image"
Unknown == "Unknown"
MediaKind == {Video, Image, Unknown}

VIDEO_EXTSTENSIONS ==
  << <<"m","p","4">>, <<"w","e","b","m">>, <<"m","o","v">>, <<"m","k","v">>,
     <<"a","v","i">>, <<"m","4","v">>, <<"3","g","p">> >>

IMAGE_EXTSTENSIONS ==
  << <<"j","p","g">>, <<"j","p","e","g">>, <<"p","n","g">>, <<"w","e","b","p">>,
     <<"g","i","f">>, <<"b","m","p">> >>

FORBIDDEN_EXTENSIONS ==
  << <<"j","s","o","n">>, <<"t","x","t">>, <<"l","o","g">> >>

\* slice.iter().any(|e| e.eq_ignore_ascii_case(ext))
AnyEqIgnoreCase(list, ext) ==
  \E e \in {ext} : \E i \in 1..Len(list) : EqIgnoreAsciiCase(list[i], e)

\* ---------------------------------------------------------------- paths
NoExt == "NoExt"

\* Positions of '.' in a file name.
DotPositions(name) == {i \in 1..Len(name) : name[i] = "."}

\* Path::extension: the text after the last '.', none when the name has no
\* '.', when its only '.' is the first character, or when it is "..".
Extension(name) ==
  IF DotPositions(name) = {} \/ name = <<".", ".">> THEN NoExt
  ELSE LET d == CHOOSE i \in DotPositions(name) :
                   \A j \in DotPositions(name) : j <= i
       IN IF d = 1 THEN NoExt ELSE SubSeq(name, d + 1, Len(name))

\* ------------------------------------------------- workspace directory entries
\* What the external tool can leave in the workspace. type: "file" (regular),
\* "dir", or "missing" (a path that is not on disk); len: size in bytes;
\* mime: what the content-signature probe reports for the leading bytes
\* (the empty text when it recognises nothing).
E_clip_mp4 ==
  [name |-> <<"c","l","i","p",".","m","p","4">>, type |-> "file", len |-> 4096, mime |-> <<"v","i","d","e","o","/","m","p","4">>]
E_B_MP4 ==
  [name |-> <<"B",".","M","P","4">>, type |-> "file", len |-> 4096, mime |-> <<"v","i","d","e","o","/","m","p","4">>]
E_a_jpg ==
  [name |-> <<"a",".","j","p","g">>, type |-> "file", len |-> 512, mime |-> <<"i","m","a","g","e","/","j","p","e","g">>]
E_thumb_jpg ==
  [name |-> <<"t","h","u","m","b",".","j","p","g">>, type |-> "file", len |-> 512, mime |-> <<"i","m","a","g","e","/","j","p","e","g">>]
E_d_webm ==
  [name |-> <<"d",".","w","e","b","m">>, type |-> "dir", len |-> 4096, mime |-> <<>>]
E_empty_mp4 ==
  [name |-> <<"e","m","p","t","y",".","m","p","4">>, type |-> "file", len |-> 0, mime |-> <<>>]
E_ghost_mp4 ==
  [name |-> <<"g","h","o","s","t",".","m","p","4">>, type |-> "missing", len |-> 0, mime |-> <<>>]
E_noext ==
  [name |-> <<"n","o","e","x","t">>, type |-> "file", len |-> 4096, mime |-> <<"v","i","d","e","o","/","m","p","4">>]
E_raw_bin ==
  [name |-> <<"r","a","w",".","b","i","n">>, type |-> "file", len |-> 512, mime |-> <<"i","m","a","g","e","/","p","n","g">>]
E_x_mKv ==
  [name |-> <<"x",".","m","KELVIN","v">>, type |-> "file", len |-> 4096, mime |-> <<"v","i","d","e","o","/","x","-","m","a","t","r","o","s","k","a">>]
E_doc_pdf ==
  [name |-> <<"d","o","c",".","p","d","f">>, type |-> "file", len |-> 512, mime |-> <<"a","p","p","l","i","c","a","t","i","o","n","/","p","d","f">>]
E_a_json ==
  [name |-> <<"a",".","j","s","o","n">>, type |-> "file", len |-> 64, mime |-> <<>>]
E_b_log ==
  [name |-> <<"b",".","l","o","g">>, type |-> "file", len |-> 64, mime |-> <<>>]
E_hidden_mp4 ==
  [name |-> <<".","h","i","d","d","e","n",".","m","p","4">>, type |-> "file", len |-> 4096, mime |-> <<"v","i","d","e","o","/","m","p","4">>]
E_Metadata_mp4 ==
  [name |-> <<"M","e","t","a","d","a","t","a",".","m","p","4">>, type |-> "file", len |-> 4096, mime |-> <<"v","i","d","e","o","/","m","p","4">>]

\* Every directory entry the model draws workspaces and file lists from.
Catalog ==
  {E_clip_mp4, E_B_MP4, E_a_jpg, E_thumb_jpg, E_d_webm, E_empty_mp4,
   E_noext, E_raw_bin, E_x_mKv, E_doc_pdf, E_a_json, E_b_log,
   E_hidden_mp4, E_Metadata_mp4}

\* The entries a caller of process_download_result can name in a file list:
\* also a path that is not on disk, and files the pre-filter would reject.
SelectCatalog ==
  {E_clip_mp4, E_B_MP4, E_a_jpg, E_d_webm, E_empty_mp4, E_ghost_mp4,
   E_noext, E_doc_pdf}

\* The entries of directory d that are on disk under this name (none or one).
OnDisk(d, name) == {e \in d : e.name = name /\ e.type # "missing"}

\* ------------------------------------------------------------ classifier
\* Bytes of the sample buffer read for content sniffing.
SampleLen == 8192

Min(a, b) == IF a < b THEN a ELSE b

\* An extension step that compares the extension as it is spelled.
KindByExtensionCased(name) ==
  IF Extension(name) = NoExt THEN Unknown
  ELSE IF \E i \in 1..Len(VIDEO_EXTSTENSIONS) :
            Extension(name) = VIDEO_EXTSTENSIONS[i] THEN Video
  ELSE IF \E i \in 1..Len(IMAGE_EXTSTENSIONS) :
            Extension(name) = IMAGE_EXTSTENSIONS[i] THEN Image
  ELSE Unknown

\* The extension step shared by both classifiers.
KindByExtension(name) ==
  IF Extension(name) = NoExt THEN Unknown
  ELSE IF AnyEqIgnoreCase(VIDEO_EXTSTENSIONS, Extension(name)) THEN Video
  ELSE IF AnyEqIgnoreCase(IMAGE_EXTSTENSIONS, Extension(name)) THEN Image
  ELSE Unknown

\* File::open + one read into the sample buffer: the number of bytes read,
\* or -1 when the open or the read fails (missing path, directory).
ReadSample(d, name) ==
  IF OnDisk(d, name) = {} THEN -1
  ELSE LET e == CHOOSE x \in OnDisk(d, name) : TRUE
       IN IF e.type = "file" THEN Min(e.len, SampleLen) ELSE -1

\* infer::get on the bytes read: the detected MIME type, empty if none.
InferMime(d, name) == (CHOOSE x \in OnDisk(d, name) : TRUE).mime

\* A classifier whose fall-through answer, also taken when the file cannot
\* be opened or read, is Image.
detect_media_kind_async_fallback(d, name) ==
  IF KindByExtension(name) # Unknown THEN KindByExtension(name)
  ELSE IF ReadSample(d, name) > 0
    THEN LET mt == InferMime(d, name)
         IN IF StartsWith(mt, <<"v","i","d","e","o","/">>) THEN Video
            ELSE IF StartsWith(mt, <<"i","m","a","g","e","/">>) THEN Image
            ELSE Unknown
    ELSE Image

\* detect_media_kind_async
detect_media_kind_async(d, name) ==
  IF KindByExtension(name) # Unknown THEN KindByExtension(name)
  ELSE IF ReadSample(d, name) > 0
    THEN LET mt == InferMime(d, name)
         IN IF StartsWith(mt, <<"v","i","d","e","o","/">>) THEN Video
            ELSE IF StartsWith(mt, <<"i","m","a","g","e","/">>) THEN Image
            ELSE Unknown
    ELSE Unknown

\* Whether a classifier goes on to open the file: it does when the
\* extension step did not return.
Sniffs(name) == KindByExtension(name) = Unknown

\* No split: the whole MIME type is taken as its first token.
SplitNone(mt) == mt

\* mime_type.split('/').next(): the text before the first '/'.
SplitFirst(mt) ==
  LET slashes == {i \in 1..Len(mt) : mt[i] = "/"}
  IN IF slashes = {} THEN mt
     ELSE SubSeq(mt, 1, (CHOOSE i \in slashes : \A j \in slashes : i <= j) - 1)

\* detect_media_kind (blocking): infer::get_from_path opens the file and
\* reads its first bytes; an error or an unrecognised content give Unknown.
detect_media_kind(d, name) ==
  IF KindByExtension(name) # Unknown THEN KindByExtension(name)
  ELSE IF ReadSample(d, name) >= 0 /\ InferMime(d, name) # <<>>
    THEN LET top == SplitFirst(InferMime(d, name))
         IN IF top = <<"v","i","d","e","o">> THEN Video
            ELSE IF top = <<"i","m","a","g","e">> THEN Image
            ELSE Unknown
    ELSE Unknown

\* A metadata check that only asks whether the path exists.
MetadataExists(d, name) == OnDisk(d, name) # {}

\* std::fs::metadata(path).map(|m| m.is_file() && m.len() > 0).unwrap_or(false)
MetadataOk(d, name) ==
  \E e \in OnDisk(d, name) : e.type = "file" /\ e.len > 0

\* ------------------------------------------------------------- pre-filter
\* A pre-filter that looks for the metadata marker without lower-casing.
is_potential_media_file_cased(name) ==
  IF StartsWith(name, <<".">>)
     \/ Contains(name, <<"m","e","t","a","d","a","t","a">>)
  THEN FALSE
  ELSE IF Extension(name) = NoExt THEN FALSE
  ELSE LET ext == ToLower(Extension(name))
       IN IF AnyEqIgnoreCase(FORBIDDEN_EXTENSIONS, ext) THEN FALSE
          ELSE AnyEqIgnoreCase(VIDEO_EXTSTENSIONS \o IMAGE_EXTSTENSIONS, ext)

\* A pre-filter that rejects the hidden, marked and forbidden names and
\* retains every other one, whatever its extension.
is_potential_media_file_lenient(name) ==
  IF StartsWith(name, <<".">>)
     \/ Contains(ToLower(name), <<"m","e","t","a","d","a","t","a">>)
  THEN FALSE
  ELSE IF Extension(name) = NoExt THEN TRUE
  ELSE ~AnyEqIgnoreCase(FORBIDDEN_EXTENSIONS, ToLower(Extension(name)))

\* is_potential_media_file
is_potential_media_file(name) ==
  IF StartsWith(name, <<".">>)
     \/ Contains(ToLower(name), <<"m","e","t","a","d","a","t","a">>)
  THEN FALSE
  ELSE IF Extension(name) = NoExt THEN FALSE
  ELSE LET ext == ToLower(Extension(name))
       IN IF AnyEqIgnoreCase(FORBIDDEN_EXTENSIONS, ext) THEN FALSE
          ELSE AnyEqIgnoreCase(VIDEO_EXTSTENSIONS \o IMAGE_EXTSTENSIONS, ext)

\* ----------------------------------------------------------------- sorting
\* files.sort(): insertion of x into the sorted sequence s.
RECURSIVE InsertPath(_, _)
InsertPath(x, s) ==
  IF s = <<>> THEN <<x>>
  ELSE IF PathLess(x, Head(s)) THEN <<x>> \o s
  ELSE <<Head(s)>> \o InsertPath(x, Tail(s))

\* No sort: the paths stay in enumeration order.
KeepScanOrder(files) == files

\* files.sort()
RECURSIVE SortFiles(_)
SortFiles(files) ==
  IF files = <<>> THEN <<>>
  ELSE InsertPath(files[Len(files)], SortFiles(SubSeq(files, 1, Len(files) - 1)))

\* sort_by is stable: x goes after the items whose path is not greater.
RECURSIVE InsertItem(_, _)
InsertItem(x, s) ==
  IF s = <<>> THEN <<x>>
  ELSE IF PathLess(x.path, Head(s).path) THEN <<x>> \o s
  ELSE <<Head(s)>> \o InsertItem(x, Tail(s))

\* No sort: the items stay in completion order.
KeepCompletionOrder(items) == items

\* media_items.sort_by(|(p1, _), (p2, _)| p1.cmp(p2))
RECURSIVE SortMediaItems(_)
SortMediaItems(items) ==
  IF items = <<>> THEN <<>>
  ELSE InsertItem(items[Len(items)],
                  SortMediaItems(SubSeq(items, 1, Len(items) - 1)))

\* All orders in which the elements of a finite set can be enumerated.
RECURSIVE Orders(_)
Orders(S) ==
  IF S = {} THEN {<<>>}
  ELSE UNION {{<<x>> \o o : o \in Orders(S \ {x})} : x \in S}

Range(s) == {s[i] : i \in 1..Len(s)}

\* -------------------------------------------------------- URL patterns
\* A pattern is matched from a start offset by following the set of offsets
\* its pieces can end at (offsets are 0-based, between characters).

\* A literal.
Lit(s, P, lit) == {p + Len(lit) : p \in {q \in P : HasAt(s, q, lit)}}

IsAlnum(c) == IsUpper(c) \/ IsLowerAlpha(c) \/ IsDigit(c)
\* [A-Za-z0-9_-]
IsWordDash(c) == IsAlnum(c) \/ c = "_" \/ c = "-"
\* [A-Za-z0-9_]
IsWord(c) == IsAlnum(c) \/ c = "_"
\* [^\s]
IsNonSpace(c) == ~IsSpace(c)
\* [/?#]
IsUrlDelim(c) == c \in {"/", "?", "#"}

\* Membership of a character in a named character class of the patterns.
InClass(class, c) ==
  CASE class = "word-dash" -> IsWordDash(c)
    [] class = "word" -> IsWord(c)
    [] class = "non-space" -> IsNonSpace(c)
    [] class = "url-delim" -> IsUrlDelim(c)
    [] class = "digit" -> IsDigit(c)

\* Between lo and hi characters of a class.
Run(s, P, class, lo, hi) ==
  {e \in 0..Len(s) :
     \E p \in P : /\ e - p >= lo
                  /\ e - p <= hi
                  /\ \A i \in (p + 1)..e : InClass(class, s[i])}

\* https?://(?:www\.)?
SchemeEnds(s, st) ==
  LET p1 == Lit(s, {st}, <<"h","t","t","p">>)
      p2 == p1 \cup Lit(s, p1, <<"s">>)
      p3 == Lit(s, p2, <<":","/","/">>)
  IN p3 \cup Lit(s, p3, <<"w","w","w",".">>)

\* https?://(?:www\.)?(?:instagram\.com|instagr\.am)/(?:reel|tv)/([A-Za-z0-9_-]+)
InstagramEnds(s, st) ==
  LET p1 == SchemeEnds(s, st)
      p2 == Lit(s, p1, <<"i","n","s","t","a","g","r","a","m",".","c","o","m">>) \cup Lit(s, p1, <<"i","n","s","t","a","g","r",".","a","m">>)
      p3 == Lit(s, p2, <<"/">>)
      p4 == Lit(s, p3, <<"r","e","e","l">>) \cup Lit(s, p3, <<"t","v">>)
      p5 == Lit(s, p4, <<"/">>)
  IN Run(s, p5, "word-dash", 1, Len(s))

\* https?:\/\/(?:www\.)?youtube\.com\/shorts\/[A-Za-z0-9_-]+(?:\?[^\s]*)?
YoutubeEnds(s, st) ==
  LET p1 == SchemeEnds(s, st)
      p2 == Lit(s, p1, <<"y","o","u","t","u","b","e",".","c","o","m","/","s","h","o","r","t","s","/">>)
      p3 == Run(s, p2, "word-dash", 1, Len(s))
  IN p3 \cup Run(s, Lit(s, p3, <<"?">>), "non-space", 0, Len(s))

\* https?://(?:www\.)?twitter\.com/([A-Za-z0-9_]+(?:/[A-Za-z0-9_]+)?)/status/(\d{1,20})
TwitterEnds(s, st) ==
  LET p1 == SchemeEnds(s, st)
      p2 == Lit(s, p1, <<"t","w","i","t","t","e","r",".","c","o","m","/">>)
      p3 == Run(s, p2, "word", 1, Len(s))
      p4 == p3 \cup Run(s, Lit(s, p3, <<"/">>), "word", 1, Len(s))
      p5 == Lit(s, p4, <<"/","s","t","a","t","u","s","/">>)
  IN Run(s, p5, "digit", 1, 20)

\* https?://(?:www\.)?(?:vm|vt|tt|tik)\.tiktok\.com/([A-Za-z0-9_-]+)[/?#]?
TiktokEnds(s, st) ==
  LET p1 == SchemeEnds(s, st)
      p2 == Lit(s, p1, <<"v","m">>) \cup Lit(s, p1, <<"v","t">>)
            \cup Lit(s, p1, <<"t","t">>) \cup Lit(s, p1, <<"t","i","k">>)
      p3 == Lit(s, p2, <<".","t","i","k","t","o","k",".","c","o","m","/">>)
      p4 == Run(s, p3, "word-dash", 1, Len(s))
  IN p4 \cup Run(s, p4, "url-delim", 1, 1)

\* The offsets at which a match of handler h's pattern starting at st can end.
PatternEnds(h, s, st) ==
  CASE h = "instagram" -> InstagramEnds(s, st)
    [] h = "youtube" -> YoutubeEnds(s, st)
    [] h = "twitter" -> TwitterEnds(s, st)
    [] h = "tiktok" -> TiktokEnds(s, st)

SetMin(S) == CHOOSE x \in S : \A y \in S : x <= y

NoMatch == <<"N","o","n","e">>

\* Handler::try_extract: the text of the leftmost match (every repetition of
\* these patterns is greedy, so it extends to the farthest end), or NoMatch.
try_extract(h, text) ==
  LET starts == {st \in 0..Len(text) : PatternEnds(h, text, st) # {}}
  IN IF starts = {} THEN NoMatch
     ELSE LET st == SetMin(starts)
          IN SubSeq(text, st + 1, (CHOOSE e \in PatternEnds(h, text, st) :
                                        \A y \in PatternEnds(h, text, st) : y <= e))

\* The same handlers registered in another order.
create_handlers_reordered == <<"twitter", "tiktok", "youtube", "instagram">>

\* create_handlers: the handlers in registration order.
create_handlers == <<"instagram", "youtube", "twitter", "tiktok">>

NoHandler == "none"

\* The message loop's scan of the handler list: the first handler, from
\* index i on, whose pattern matches, with the text it extracted.
RECURSIVE dispatch(_, _, _)
dispatch(handlers, text, i) ==
  IF i > Len(handlers) THEN [handler |-> NoHandler, url |-> <<>>]
  ELSE IF try_extract(handlers[i], text) # NoMatch
    THEN [handler |-> handlers[i], url |-> try_extract(handlers[i], text)]
    ELSE dispatch(handlers, text, i + 1)

\* ------------------------------------------------------- message texts
\* The words a message text is made of:
\*   http://instagr.am/tv/C_x-1                 (instagram pattern)
\*   https://instagram.com/p/Cx                 (no pattern: /p/ is not listed)
\*   https://www.youtube.com/shorts/aB3?si=1    (youtube pattern)
\*   https://twitter.com/u/status/12            (twitter pattern)
\*   https://vm.tiktok.com/ZM8/                 (tiktok pattern)
\*   hello                                      (no pattern)
\*   http://twitter.com/u/status/1?r=http://instagr.am/reel/x
\*                                              (twitter and instagram patterns)
\*   https://youtube.com/shorts/ab?x=1<CR>y     (youtube pattern, up to <CR>)
Tokens ==
  { <<"h","t","t","p",":","/","/","i","n","s","t","a","g","r",".","a","m","/","t","v","/","C","_","x","-","1">>,
    <<"h","t","t","p","s",":","/","/","i","n","s","t","a","g","r","a","m",".","c","o","m","/","p","/","C","x">>,
    <<"h","t","t","p","s",":","/","/","w","w","w",".","y","o","u","t","u","b","e",".","c","o","m","/","s","h","o","r","t","s","/","a","B","3","?","s","i","=","1">>,
    <<"h","t","t","p","s",":","/","/","t","w","i","t","t","e","r",".","c","o","m","/","u","/","s","t","a","t","u","s","/","1","2">>,
    <<"h","t","t","p","s",":","/","/","v","m",".","t","i","k","t","o","k",".","c","o","m","/","Z","M","8","/">>,
    <<"h","e","l","l","o">>,
    <<"h","t","t","p","s",":","/","/","y","o","u","t","u","b","e",".","c","o","m","/","s","h","o","r","t","s","/","a","b","?","x","=","1","\r","y">>,
    <<"h","t","t","p",":","/","/","t","w","i","t","t","e","r",".","c","o","m","/","u","/","s","t","a","t","u","s","/","1","?","r","=","h","t","t","p",":","/","/","i","n","s","t","a","g","r",".","a","m","/","r","e","e","l","/","x">> }

\* Texts of n tokens separated by single spaces.
RECURSIVE TextsOf(_)
TextsOf(n) ==
  IF n = 0 THEN {<<>>}
  ELSE IF n = 1 THEN Tokens
  ELSE {a \o <<" ">> \o b : a \in TextsOf(n - 1), b \in Tokens}

Texts == UNION {TextsOf(n) : n \in 0..MaxTokens}

\* Captured standard-error texts of the external tool: nothing, white space
\* only, and a message with surrounding white space, with line ends of both
\* forms.
Stderrs ==
  { <<>>, <<" ", "\n">>, <<"\r", "\n">>,
    <<" ","r","a","t","e"," ","l","i","m","i","t","e","d","\n">>,
    <<"\f","e","r","r","\r","\n">> }

\* ------------------------------------------------- fetch argument lists
\* An argument is a fixed word (lit) or a text taken from the message (text).
FlagArg(w) == [lit |-> w, text |-> <<>>]
TextArg(x) == [lit |-> "", text |-> x]

NoCookie == ""
\* Values of the session-cookie environment variable: unset, or a path.
CookieEnv == {NoCookie, "/run/cookies.txt"}

CookieArgs(cookie) ==
  IF cookie = NoCookie THEN <<>> ELSE <<FlagArg("--cookies"), FlagArg(cookie)>>

\* download_instagram
download_instagram_args(u, cookie) ==
  <<FlagArg("-t"), FlagArg("mp4"), FlagArg("--extractor-args"), FlagArg("instagram:")>>
    \o CookieArgs(cookie) \o <<TextArg(u)>>

\* download_tiktok
download_tiktok_args(u, cookie) ==
  <<FlagArg("-t"), FlagArg("mp4"), FlagArg("--extractor-args"), FlagArg("tiktok:")>>
    \o CookieArgs(cookie) \o <<TextArg(u)>>

\* download_twitter: reads no cookie variable
download_twitter_args(u, cookie) ==
  <<FlagArg("-t"), FlagArg("mp4"), FlagArg("--extractor-args"), FlagArg("twitter:"),
    TextArg(u)>>

\* download_youtube
download_youtube_args(u, cookie) ==
  <<FlagArg("--no-playlist"), FlagArg("-t"), FlagArg("mp4"),
    FlagArg("--restrict-filenames"), FlagArg("-o"), FlagArg("%(title)s.%(ext)s"),
    FlagArg("--postprocessor-args"),
    FlagArg("ffmpeg:-vf setsar=1 -c:v libx264 -crf 20 -preset veryfast -c:a aac -b:a 128k -movflags +faststart")>>
    \o CookieArgs(cookie) \o <<TextArg(u)>>

\* The download function bound to each handler by create_handlers.
FetchArgs(h, u, cookie) ==
  CASE h = "instagram" -> download_instagram_args(u, cookie)
    [] h = "youtube" -> download_youtube_args(u, cookie)
    [] h = "twitter" -> download_twitter_args(u, cookie)
    [] h = "tiktok" -> download_tiktok_args(u, cookie)

\* ------------------------------------------------------------------ state
VARIABLES
  inbox,     \* message texts received and not yet handed to a handler
  pc,        \* where the task serving the message is
  handler,   \* name of the handler the message was routed to
  url,       \* text extracted by that handler's pattern
  cmd,       \* name of the external executable being run
  args,      \* argument list of the external process
  tmp,       \* the workspace directory: "none", "exists" or "removed"
  dir,       \* entries the external tool wrote into the workspace
  output,    \* exit status and captured stderr of the external process
  files,     \* DownloadResult.files
  input,     \* the file list process_download_result was called with
  pending,   \* classification futures not yet started
  inflight,  \* paths whose classification future is in flight
  results,   \* classification results, in completion order
  classified,\* how often each path of the input list was classified
  sending,   \* the delivery request in flight
  sent,      \* every delivery request made so far
  result,    \* what the run returned
  calls,     \* how often each stage was entered
  replies,   \* what the transport answered to each delivery request
  fetch,     \* the fetch call in progress: platform, URL, cookie variable
  runs,      \* concurrent pipeline runs: position, workspace, file list
  fs,        \* the temporary directories on disk, shared by all runs
  accesses,  \* every listing, read, delivery and removal a run performed
  probe      \* paths handed to the pre-filter and the classifiers, and answers

vars == <<inbox, pc, handler, url, cmd, args, tmp, dir, output, files, input,
          pending, inflight, results, sending, sent, result, calls, replies,
          fetch, probe, classified, runs, fs, accesses>>

\* ------------------------------------------------------------ values
NoOutput == [status |-> -1, stderr |-> <<>>]
NoSend == [method |-> "none", path |-> <<>>, kind |-> Unknown]
Pending == [tag |-> "pending", text |-> <<>>]
Ok == [tag |-> "Ok", text |-> <<>>]
Err(tag, text) == [tag |-> tag, text |-> text]
NoCalls == [fetch |-> 0, run |-> 0, scan |-> 0, process |-> 0, deliver |-> 0]

\* ------------------------------------------------------ concurrent runs
\* The names tempdir() can give a new directory.
TempNames == 1..MaxRuns

\* No path.
NoPath == [dir |-> 0, name |-> <<>>]

\* A task outside fetch_and_send, at the given position: it holds none of
\* the function's locals and has sent no request to the chat.
Returned(at) ==
  [pc |-> at, cwd |-> 0, status |-> -1, files |-> <<>>, winner |-> NoPath,
   method |-> "none", reply |-> [method |-> "none", file |-> <<>>]]

\* A task that has not started, and a directory name not in use.
NoRun == Returned("start")
NoDir == [exists |-> FALSE, owner |-> 0, entries |-> {}]

\* What instaloader leaves in the directory it is given: a video with an
\* upper-case extension and a directory, a video and a sidecar, two images.
RunOutputs ==
  {{E_B_MP4, E_d_webm}, {E_clip_mp4, E_a_json}, {E_a_jpg, E_thumb_jpg}}

\* The extension lists of main.rs.
VIDEO_EXTS == << <<"m","p","4">>, <<"w","e","b","m">> >>
IMAGE_EXTS == << <<"j","p","g">>, <<"j","p","e","g">>, <<"p","n","g">> >>

\* The loop over read_dir in fetch_and_send: the names, in enumeration
\* order, of the regular files whose extension is, as written, one of
\* matches!(ext, "jpg" | "jpeg" | "mp4" | "webm").
MediaFiles(order) ==
  LET MediaExts ==
        { <<"j","p","g">>, <<"j","p","e","g">>, <<"m","p","4">>,
          <<"w","e","b","m">> }
      Keep(e) ==
        /\ e.type = "file"
        /\ IF Extension(e.name) = NoExt THEN FALSE
           ELSE Extension(e.name) \in MediaExts
      kept == SelectSeq(order, Keep)
  IN [i \in 1..Len(kept) |-> kept[i].name]

\* kind_by_magic: one read of at most 8192 bytes, probed for a signature.
kind_by_magic(d, name) ==
  IF ReadSample(d, name) > 0
    THEN IF StartsWith(InferMime(d, name), <<"v","i","d","e","o","/">>) THEN Video
         ELSE IF StartsWith(InferMime(d, name), <<"i","m","a","g","e","/">>) THEN Image
         ELSE Unknown
    ELSE Unknown

\* detect_media_kind of main.rs: the lower-cased extension against the two
\* lists, then the content.
main_detect_media_kind(d, name) ==
  IF Extension(name) = NoExt THEN kind_by_magic(d, name)
  ELSE IF AnyEqIgnoreCase(VIDEO_EXTS, ToAsciiLower(Extension(name))) THEN Video
  ELSE IF AnyEqIgnoreCase(IMAGE_EXTS, ToAsciiLower(Extension(name))) THEN Image
  ELSE kind_by_magic(d, name)

\* Whether detect_media_kind of main.rs goes on to open the file.
kind_needs_magic(name) ==
  IF Extension(name) = NoExt THEN TRUE
  ELSE /\ ~AnyEqIgnoreCase(VIDEO_EXTS, ToAsciiLower(Extension(name)))
       /\ ~AnyEqIgnoreCase(IMAGE_EXTS, ToAsciiLower(Extension(name)))

\* media_files.iter().find(|p| detect_media_kind(p) == kind): the index of
\* the first path of the list, in list order, of that kind, 0 if none;
\* kinds holds what detect_media_kind answers for each index of the list.
FindIndex(kinds, kind) ==
  LET hits == {p[1] : p \in {q \in kinds : q[2] = kind}}
  IN IF hits = {} THEN 0 ELSE SetMin(hits)

\* A directory creation that accepts a directory already on disk.
AnyDirs(f) == TempNames

\* tempdir(): the directory is created under a name not on disk.
FreshDirs(f) == {d \in TempNames : ~f[d].exists}

\* Drop of the TempDir guard of directory d: d is removed with its content.
RemoveDir(f, d) == [f EXCEPT ![d] = NoDir]

\* The record of run r touching directory d: the operation and the run that
\* owns d at that moment.
Access(f, r, op, d) == [run |-> r, op |-> op, owner |-> f[d].owner]

\* No fetch function is running.
NoFetch == [platform |-> "none", url |-> <<>>, cookie |-> ""]

\* Option<(PathBuf, MediaKind)>
NoneItem == [some |-> FALSE, path |-> <<>>, kind |-> Unknown]
SomeItem(path, kind) == [some |-> TRUE, path |-> path, kind |-> kind]

\* The entries on disk: those of the workspace, while it exists.
Disk == IF tmp = "exists" THEN dir ELSE {}

\* Error::ytdlp_failed
ytdlp_failed(text) == Err("YTDLPFailed", text)

\* The concurrency ceiling of the classification fan-out.
ConcurrencyCap == 8

\* A guard that is never dropped (the directory is kept on disk).
KeepTempDir(t) == t

\* Drop of a TempDir guard: the directory is removed from disk.
DropTempDir(t) == IF t = "exists" THEN "removed" ELSE t

\* The guard is dropped when the runner returns, only the paths survive.
ReleaseTempDir(t) == IF t = "exists" THEN "removed" ELSE t

\* The TempDir guard moves into the DownloadResult and stays alive with it.
MoveTempDir(t) == t

YT_DLP == <<"y","t","-","d","l","p">>

\* format!("{cmd} failed: {stderr}")
FailedText(c, stderr) == c \o <<" ","f","a","i","l","e","d",":"," ">> \o stderr

\* The failure built from the captured text as it is, without trimming.
ExitFailureRaw(c, raw) ==
  IF raw = <<>> THEN Err("Other", FailedText(c, raw))
  ELSE IF c = YT_DLP THEN ytdlp_failed(raw)
  ELSE Err("Other", FailedText(c, raw))

\* The error run_command_in_tempdir returns for a non-zero exit status.
ExitFailure(c, raw) ==
  LET stderr == Trim(raw)
  IN IF stderr = <<>> THEN Err("Other", FailedText(c, stderr))
     ELSE IF c = YT_DLP THEN ytdlp_failed(stderr)
     ELSE Err("Other", FailedText(c, stderr))

\* The directory scan: the names of the entries, in enumeration order, that
\* pass the pre-filter.
Retained(order) ==
  LET names == [i \in 1..Len(order) |-> order[i].name]
  IN SelectSeq(names, is_potential_media_file)

\* results.into_iter().flatten().filter(metadata is a non-empty regular file)
MediaItems(res, d) ==
  LET Keep(it) == it.some /\ MetadataOk(d, it.path)
  IN SelectSeq(res, Keep)

\* media_items.iter().find(|(_, k)| *k == kind)
FindKind(items, kind) ==
  LET hits == {i \in 1..Len(items) : items[i].kind = kind}
  IN IF hits = {} THEN NoneItem ELSE items[SetMin(hits)]

\* A selection that ignores the kind: the first item in path order.
WinnerFirst(items) == items[1]

\* prefer video over image
Winner(items) ==
  IF FindKind(items, Video).some THEN FindKind(items, Video)
  ELSE FindKind(items, Image)

\* send_media_from_path: the transport call made for a kind.
SendMethod(kind) ==
  CASE kind = Video -> "send_video"
    [] kind = Image -> "send_photo"
    [] OTHER -> "send_message"

\* What send_media_from_path returns once the transport call succeeded.
SendResult(kind) ==
  IF kind = Unknown THEN Err("UnknownMediaKind", <<>>) ELSE Ok

\* A fan-out without ceiling: one task per file.
ConcurrencyAll(n) == n

\* let concurrency = min(8, dr.files.len())
Concurrency(n) == Min(ConcurrencyCap, n)

Workspaces == {d \in SUBSET Catalog : Cardinality(d) <= MaxEntries}

\* File lists of distinct entries, in every order.
FileLists ==
  UNION {Orders(d) : d \in {x \in SUBSET SelectCatalog : Cardinality(x) <= MaxFiles}}

\* ------------------------------------------------------- fan-out lists
\* The i-th lower-case letter.
Letter(i) == AsciiPrintable[66 + i - 1]

\* The i-th file of a long list: the first an image, the second a video (when
\* media is set), the others of unrecognised content and extension.
FanOutEntry(i, media) ==
  IF media /\ i = 1
    THEN [name |-> <<Letter(i), ".", "j","p","g">>, type |-> "file", len |-> 512,
          mime |-> <<"i","m","a","g","e","/","j","p","e","g">>]
  ELSE IF media /\ i = 2
    THEN [name |-> <<Letter(i), ".", "m","p","4">>, type |-> "file", len |-> 4096,
          mime |-> <<"v","i","d","e","o","/","m","p","4">>]
  ELSE [name |-> <<Letter(i), ".", "d","a","t">>, type |-> "file", len |-> 64,
        mime |-> <<>>]

\* --------------------------------------------------------- probed paths
\* char::to_ascii_uppercase
UpperChar(c) == IF IsLowerAlpha(c) THEN AsciiPrintable[Code(c) - 32 - 31] ELSE c

\* First character upper case, the rest as it is.
Capitalised(s) ==
  IF s = <<>> THEN s ELSE <<UpperChar(s[1])>> \o SubSeq(s, 2, Len(s))

\* Text before the extension: plain, hidden, carrying the metadata marker in
\* mixed case, containing a dot, and empty.
ProbeStems ==
  { <<"c","l","i","p">>, <<".","h">>,
    <<"m","y","M","e","t","a","D","A","T","A","_","1">>,
    <<"a",".","j","s","o","n">>, <<>> }

\* Extensions in lower case: the video, image and forbidden ones, others,
\* and mkv spelled with KELVIN SIGN.
ProbeExtensions ==
  Range(VIDEO_EXTSTENSIONS) \cup Range(IMAGE_EXTSTENSIONS)
    \cup Range(FORBIDDEN_EXTENSIONS)
    \cup { <<"p","d","f">>, <<"m","p">>, <<"m","p","4","x">>, <<>>,
           <<"m","KELVIN","v">> }

\* File names: a stem alone, or a stem, a dot and an extension in lower,
\* upper or capitalised form.
ProbeNames ==
  (ProbeStems
     \cup {st \o <<".">> \o x : st \in ProbeStems,
              x \in UNION {{e, [i \in 1..Len(e) |-> UpperChar(e[i])],
                             Capitalised(e)} : e \in ProbeExtensions}})
    \ {<<>>}

\* What can be on disk under a name: a regular file whose leading bytes the
\* signature probe reports as video, image, something else or nothing, an
\* empty file, a directory, or nothing at all.
ProbeShapes ==
  { [type |-> "file", len |-> 9000, mime |-> <<"v","i","d","e","o","/","m","p","4">>],
    [type |-> "file", len |-> 512, mime |-> <<"i","m","a","g","e","/","p","n","g">>],
    [type |-> "file", len |-> 512, mime |-> <<"a","p","p","l","i","c","a","t","i","o","n","/","p","d","f">>],
    [type |-> "file", len |-> 100, mime |-> <<"v","i","d","e","o","/","w","e","b","m">>],
    [type |-> "file", len |-> 2048, mime |-> <<"a","u","d","i","o","/","m","p","e","g">>],
    [type |-> "file", len |-> 64, mime |-> <<>>],
    [type |-> "file", len |-> 0, mime |-> <<>>],
    [type |-> "dir", len |-> 4096, mime |-> <<>>],
    [type |-> "missing", len |-> 0, mime |-> <<>>] }

ProbeEntry(n, sh) ==
  [name |-> n, type |-> sh.type, len |-> sh.len, mime |-> sh.mime]

\* The directories probed: one entry of any name and shape, and the
\* workspace holding a.json, b.log and clip.mp4.
ProbeDirs ==
  {{ProbeEntry(n, sh)} : n \in ProbeNames, sh \in ProbeShapes}
    \cup {{E_a_json, E_b_log, E_clip_mp4}}

NoProbe == [listing |-> <<>>, retained |-> <<>>, blocking |-> <<>>,
            async |-> <<>>, opened |-> {}, done |-> {}]

\* ------------------------------------------------------------------- Init
Idle ==
  /\ handler = NoHandler /\ url = <<>> /\ cmd = <<>> /\ args = <<>>
  /\ output = NoOutput /\ input = <<>> /\ pending = <<>> /\ inflight = {}
  /\ results = <<>> /\ sending = NoSend /\ sent = <<>> /\ result = Pending
  /\ calls = NoCalls /\ replies = <<>> /\ fetch = NoFetch
  /\ classified = <<>>

\* No message has been handed to a task and no workspace is on disk.
NoRuns ==
  /\ runs = [r \in 1..MaxRuns |-> NoRun]
  /\ fs = [d \in TempNames |-> NoDir]
  /\ accesses = {}

\* One message has arrived; nothing has run.
Init ==
  /\ inbox \in {<<x>> : x \in Texts}
  /\ pc = "recv"
  /\ tmp = "none" /\ dir = {} /\ files = <<>>
  /\ probe = NoProbe
  /\ Idle /\ NoRuns

\* process_download_result is about to be called with a DownloadResult whose
\* workspace exists and whose file list is any list of paths in it.
InitSelect ==
  /\ inbox = <<>>
  /\ pc = "returned"
  /\ tmp = "exists"
  /\ \E l \in FileLists :
       /\ dir = Range(l)
       /\ files = [i \in 1..Len(l) |-> l[i].name]
  /\ probe = NoProbe
  /\ Idle /\ NoRuns

\* process_download_result is about to be called with a list of n files,
\* 1 <= n <= MaxFanOut, in path order.
InitFanOut ==
  /\ inbox = <<>>
  /\ pc = "returned"
  /\ tmp = "exists"
  /\ \E n \in 1..MaxFanOut, media \in BOOLEAN :
       /\ dir = {FanOutEntry(i, media) : i \in 1..n}
       /\ files = [i \in 1..n |-> FanOutEntry(i, media).name]
  /\ probe = NoProbe
  /\ Idle /\ NoRuns

\* Some messages have each been handed to a task of its own; none of the
\* tasks has run yet.
InitRuns ==
  /\ inbox = <<>>
  /\ pc = "recv"
  /\ tmp = "none" /\ dir = {} /\ files = <<>>
  /\ probe = NoProbe
  /\ Idle /\ NoRuns

\* A directory is on disk and its entries, enumerated in some order, are
\* about to be handed to the pre-filter and to both classifiers; no call of
\* the asynchronous classifier has been made.
InitProbe ==
  /\ inbox = <<>>
  /\ pc = "probe"
  /\ tmp = "exists"
  /\ files = <<>>
  /\ \E d \in ProbeDirs :
       /\ dir = d
       /\ \E o \in Orders(d) :
            probe = [NoProbe EXCEPT !.listing = o,
                                    !.async = [i \in 1..Len(o) |-> "NotCalled"]]
  /\ Idle /\ NoRuns

\* ---------------------------------------------------------------- actions
\* The message loop scans the handlers for the received text.
Dispatch ==
  /\ pc = "recv" /\ inbox # <<>>
  /\ LET d == dispatch(create_handlers, Head(inbox), 1)
     IN /\ handler' = d.handler
        /\ url' = d.url
        /\ pc' = IF d.handler = NoHandler THEN "ignored" ELSE "dispatched"
  /\ UNCHANGED <<runs, fs, accesses, classified, fetch, replies, probe, inbox, cmd, args, tmp, dir, output, files, input, pending,
                 inflight, results, sending, sent, result, calls>>

\* The chosen handler's handle() is called with the extracted text.
CallHandle ==
  /\ pc = "dispatched"
  /\ inbox' = Tail(inbox)
  /\ pc' = "handle"
  /\ UNCHANGED <<runs, fs, accesses, classified, fetch, replies, probe, handler, url, cmd, args, tmp, dir, output, files, input,
                 pending, inflight, results, sending, sent, result, calls>>

\* handle() calls the fetch function: it builds the argument list, creates
\* the workspace and spawns yt-dlp in it. The routing decision (handler, url)
\* is consumed by the call: nothing reads it afterwards.
FetchSpawn ==
  /\ pc = "handle"
  /\ \E cookie \in CookieEnv :
       /\ args' = FetchArgs(handler, url, cookie)
       /\ fetch' = [platform |-> handler, url |-> url, cookie |-> cookie]
  /\ cmd' = YT_DLP
  /\ tmp' = "exists"
  /\ calls' = [calls EXCEPT !.fetch = @ + 1, !.run = @ + 1]
  /\ handler' = NoHandler /\ url' = <<>>
  /\ pc' = "running"
  /\ UNCHANGED <<runs, fs, accesses, classified, replies, probe, inbox, dir, output, files, input, pending, inflight, results,
                 sending, sent, result>>

\* tempdir() fails: no workspace was created.
FetchTempdirFail ==
  /\ pc = "handle"
  /\ calls' = [calls EXCEPT !.fetch = @ + 1, !.run = @ + 1]
  /\ handler' = NoHandler /\ url' = <<>>
  /\ result' = Err("Io", <<>>)
  /\ pc' = "done"
  /\ UNCHANGED <<runs, fs, accesses, classified, fetch, replies, probe, inbox, cmd, args, tmp, dir, output, files, input, pending,
                 inflight, results, sending, sent>>

\* The workspace was created and the spawn fails: the guard is dropped.
FetchSpawnFail ==
  /\ pc = "handle"
  /\ calls' = [calls EXCEPT !.fetch = @ + 1, !.run = @ + 1]
  /\ handler' = NoHandler /\ url' = <<>>
  /\ cmd' = YT_DLP
  /\ tmp' = DropTempDir("exists")
  /\ result' = Err("Io", <<>>)
  /\ pc' = "done"
  /\ UNCHANGED <<runs, fs, accesses, classified, fetch, replies, probe, inbox, args, dir, output, files, input, pending, inflight,
                 results, sending, sent>>

\* The external process exits, having written some entries; its argument
\* list and the fetch function's inputs are not read again.
ProcessExit ==
  /\ pc = "running"
  /\ \E st \in {0, 1}, e \in Stderrs : output' = [status |-> st, stderr |-> e]
  /\ dir' \in Workspaces
  /\ args' = <<>>
  /\ pc' = "exited"
  /\ fetch' = NoFetch
  /\ UNCHANGED <<runs, fs, accesses, classified, replies, probe, inbox, handler, url, cmd, tmp, files, input, pending,
                 inflight, results, sending, sent, result, calls>>

\* A runner that, on a non-zero exit status, still lists the workspace and
\* returns what it retained, failing only when it retained nothing.
RunnerExitLenient ==
  /\ pc = "exited" /\ output.status # 0
  /\ calls' = [calls EXCEPT !.scan = @ + 1]
  /\ \E order \in Orders(dir) :
       IF Retained(order) = <<>>
       THEN /\ result' = ExitFailure(cmd, output.stderr)
            /\ tmp' = DropTempDir(tmp)
            /\ pc' = "done"
            /\ files' = files
       ELSE /\ files' = SortFiles(Retained(order))
            /\ tmp' = MoveTempDir(tmp)
            /\ pc' = "returned"
            /\ result' = result
  /\ UNCHANGED <<runs, fs, accesses, classified, fetch, replies, probe, inbox, handler, url, cmd, args, dir, output, input,
                 pending, inflight, results, sending, sent>>

\* Non-zero exit status.
RunnerExitFailure ==
  /\ pc = "exited" /\ output.status # 0
  /\ result' = ExitFailure(cmd, output.stderr)
  /\ tmp' = DropTempDir(tmp)
  /\ pc' = "done"
  /\ UNCHANGED <<runs, fs, accesses, classified, fetch, replies, probe, inbox, handler, url, cmd, args, dir, output, files, input,
                 pending, inflight, results, sending, sent, calls>>

\* read_dir or next_entry fails.
ScanIoError ==
  /\ pc = "exited" /\ output.status = 0
  /\ calls' = [calls EXCEPT !.scan = @ + 1]
  /\ result' = Err("Io", <<>>)
  /\ tmp' = DropTempDir(tmp)
  /\ pc' = "done"
  /\ UNCHANGED <<runs, fs, accesses, classified, fetch, replies, probe, inbox, handler, url, cmd, args, dir, output, files, input,
                 pending, inflight, results, sending, sent>>

\* A scan that returns a DownloadResult whatever it retained.
ScanNoEmptyCheck ==
  /\ pc = "exited" /\ output.status = 0
  /\ \E order \in Orders(dir) : files' = SortFiles(Retained(order))
  /\ tmp' = MoveTempDir(tmp)
  /\ pc' = "returned"
  /\ calls' = [calls EXCEPT !.scan = @ + 1]
  /\ UNCHANGED <<runs, fs, accesses, classified, fetch, replies, probe, inbox, handler, url, cmd, args, dir, output, input, pending,
                 inflight, results, sending, sent, result>>

\* The scan completes; the entries come in any order. When nothing is
\* retained the directory is listed a second time for the warning.
Scan ==
  /\ pc = "exited" /\ output.status = 0
  /\ \E order \in Orders(dir) :
       IF Retained(order) = <<>>
       THEN /\ result' = Err("NoMediaFound", <<>>)
            /\ tmp' = DropTempDir(tmp)
            /\ pc' = "done"
            /\ files' = files
            /\ calls' = [calls EXCEPT !.scan = @ + 2]
       ELSE /\ files' = SortFiles(Retained(order))
            /\ tmp' = MoveTempDir(tmp)
            /\ pc' = "returned"
            /\ result' = result
            /\ calls' = [calls EXCEPT !.scan = @ + 1]
  /\ UNCHANGED <<runs, fs, accesses, classified, fetch, replies, probe, inbox, handler, url, cmd, args, dir, output, input, pending,
                 inflight, results, sending, sent>>

\* process_download_result up to the first poll of the classification stream.
ProcessStart ==
  /\ pc = "returned"
  /\ calls' = [calls EXCEPT !.process = @ + 1]
  /\ input' = files
  /\ files' = <<>>
  /\ IF files = <<>>
     THEN /\ result' = Err("NoMediaFound", <<>>)
          /\ tmp' = DropTempDir(tmp)
          /\ pc' = "done"
          /\ UNCHANGED <<pending, inflight>>
     ELSE /\ inflight' = {files[i] : i \in 1..Concurrency(Len(files))}
          /\ pending' = SubSeq(files, Concurrency(Len(files)) + 1, Len(files))
          /\ pc' = "classify"
          /\ UNCHANGED <<result, tmp>>
  /\ classified' = [p \in Range(files) |-> 0]
  /\ UNCHANGED <<runs, fs, accesses, fetch, replies, probe, inbox, handler, url, cmd, args, dir, output, results,
                 sending, sent>>

\* One classification future completes; the stream starts the next one.
TaskComplete ==
  /\ pc = "classify"
  /\ \E p \in inflight :
       LET kind == detect_media_kind_async(Disk, p)
       IN /\ results' = Append(results,
                 IF kind = Unknown THEN NoneItem ELSE SomeItem(p, kind))
          /\ classified' = [classified EXCEPT ![p] = @ + 1]
          /\ IF pending # <<>>
             THEN /\ inflight' = (inflight \ {p}) \cup {Head(pending)}
                  /\ pending' = Tail(pending)
             ELSE /\ inflight' = inflight \ {p}
                  /\ pending' = pending
  /\ UNCHANGED <<runs, fs, accesses, fetch, replies, probe, inbox, pc, handler, url, cmd, args, tmp, dir, output, files,
                 input, sending, sent, result, calls>>

\* A selection that, finding no winner, hands the first input path to the
\* delivery with kind Unknown instead of failing.
SelectWithFallback ==
  /\ pc = "classify" /\ inflight = {} /\ pending = <<>>
  /\ LET items == MediaItems(results, Disk)
         win == IF items = <<>> THEN SomeItem(input[1], Unknown)
                ELSE Winner(SortMediaItems(items))
     IN /\ sending' = [method |-> SendMethod(win.kind), path |-> win.path,
                       kind |-> win.kind]
        /\ sent' = Append(sent, sending')
        /\ calls' = [calls EXCEPT !.deliver = @ + 1]
        /\ pc' = "sending"
  /\ results' = <<>>
  /\ UNCHANGED <<runs, fs, accesses, classified, fetch, replies, probe, inbox, handler, url, cmd, args, tmp, dir, output, files,
                 input, pending, inflight, result>>

\* All results are collected: filter, sort, pick, and call the delivery.
Select ==
  /\ pc = "classify" /\ inflight = {} /\ pending = <<>>
  /\ LET items == MediaItems(results, Disk)
         win == Winner(SortMediaItems(items))
     IN IF items = <<>> \/ ~win.some
        THEN /\ result' = Err("NoMediaFound", <<>>)
             /\ tmp' = DropTempDir(tmp)
             /\ pc' = "done"
             /\ UNCHANGED <<sending, sent, calls>>
        ELSE /\ sending' = [method |-> SendMethod(win.kind), path |-> win.path,
                            kind |-> win.kind]
             /\ sent' = Append(sent, sending')
             /\ calls' = [calls EXCEPT !.deliver = @ + 1]
             /\ pc' = "sending"
             /\ UNCHANGED <<result, tmp>>
  /\ results' = <<>>
  /\ UNCHANGED <<runs, fs, accesses, classified, fetch, replies, probe, inbox, handler, url, cmd, args, dir, output, files, input,
                 pending, inflight>>

\* The transport call succeeds.
SendOk ==
  /\ pc = "sending"
  /\ result' = SendResult(sending.kind)
  /\ sending' = NoSend
  /\ tmp' = DropTempDir(tmp)
  /\ pc' = "done"
  /\ replies' = Append(replies, "ok")
  /\ UNCHANGED <<runs, fs, accesses, classified, fetch, probe, inbox, handler, url, cmd, args, dir, output, files, input,
                 pending, inflight, results, sent, calls>>

\* A failed transport call that is attempted once more.
SendFailRetry ==
  /\ pc = "sending" /\ calls.deliver < 2
  /\ sent' = Append(sent, sending)
  /\ calls' = [calls EXCEPT !.deliver = @ + 1]
  /\ replies' = Append(replies, "error")
  /\ UNCHANGED <<runs, fs, accesses, classified, fetch, probe, inbox, pc, handler, url, cmd, args, tmp, dir, output, files,
                 input, pending, inflight, results, sending, result>>

\* A failed transport call whose error is logged and not returned.
SendFailSwallowed ==
  /\ pc = "sending"
  /\ result' = Ok
  /\ sending' = NoSend
  /\ tmp' = DropTempDir(tmp)
  /\ pc' = "done"
  /\ replies' = Append(replies, "error")
  /\ UNCHANGED <<runs, fs, accesses, classified, fetch, probe, inbox, handler, url, cmd, args, dir, output, files, input,
                 pending, inflight, results, sent, calls>>

\* The transport call fails.
SendFail ==
  /\ pc = "sending"
  /\ result' = Err("Teloxide", <<>>)
  /\ sending' = NoSend
  /\ tmp' = DropTempDir(tmp)
  /\ pc' = "done"
  /\ replies' = Append(replies, "error")
  /\ UNCHANGED <<runs, fs, accesses, classified, fetch, probe, inbox, handler, url, cmd, args, dir, output, files, input,
                 pending, inflight, results, sent, calls>>

\* The pre-filter is applied to the listing, as the directory scan does.
ProbeFilter ==
  /\ pc = "probe" /\ "filter" \notin probe.done
  /\ probe' = [probe EXCEPT !.retained = Retained(probe.listing),
                            !.done = @ \cup {"filter"}]
  /\ UNCHANGED <<runs, fs, accesses, classified, fetch, replies, inbox, pc, handler, url, cmd, args, tmp, dir, output, files,
                 input, pending, inflight, results, sending, sent, result, calls>>

\* detect_media_kind is called on each listed path.
ProbeBlocking ==
  /\ pc = "probe" /\ "blocking" \notin probe.done
  /\ probe' = [probe EXCEPT
       !.blocking = [i \in 1..Len(probe.listing) |->
                       detect_media_kind(Disk, probe.listing[i].name)],
       !.opened = @ \cup {e.name : e \in {x \in Range(probe.listing) : Sniffs(x.name)}},
       !.done = @ \cup {"blocking"}]
  /\ UNCHANGED <<runs, fs, accesses, classified, fetch, replies, inbox, pc, handler, url, cmd, args, tmp, dir, output, files,
                 input, pending, inflight, results, sending, sent, result, calls>>

\* detect_media_kind_async is called on a listed path, as one of the
\* concurrent calls of process_download_result: the extension step returns
\* the kind, or File::open is issued and the call is suspended until the
\* open ends.
ProbeAsyncCall ==
  /\ pc = "probe"
  /\ \E i \in 1..Len(probe.listing) :
       /\ probe.async[i] = "NotCalled"
       /\ \E n \in {probe.listing[i].name} :
            IF Sniffs(n)
            THEN probe' = [probe EXCEPT !.async[i] = "Opening",
                                        !.opened = @ \cup {n}]
            ELSE probe' = [probe EXCEPT
                   !.async[i] = KindByExtension(n),
                   !.done = IF \A j \in 1..Len(probe.listing) \ {i} :
                                  probe.async[j] \in MediaKind
                            THEN @ \cup {"async"} ELSE @]
  /\ UNCHANGED <<runs, fs, accesses, classified, fetch, replies, inbox, pc, handler, url, cmd, args, tmp, dir, output, files,
                 input, pending, inflight, results, sending, sent, result, calls>>

\* File::open of a suspended call ends: with an error (nothing on disk under
\* the path) the call returns Unknown; otherwise the call holds the path
\* open, issues the read and is suspended until the read ends.
ProbeAsyncOpen ==
  /\ pc = "probe"
  /\ \E i \in 1..Len(probe.listing) :
       /\ probe.async[i] = "Opening"
       /\ IF OnDisk(Disk, probe.listing[i].name) = {}
          THEN probe' = [probe EXCEPT
                 !.async[i] = detect_media_kind_async(Disk, probe.listing[i].name),
                 !.done = IF \A j \in 1..Len(probe.listing) \ {i} :
                                probe.async[j] \in MediaKind
                          THEN @ \cup {"async"} ELSE @]
          ELSE probe' = [probe EXCEPT !.async[i] = "Reading"]
  /\ UNCHANGED <<runs, fs, accesses, classified, fetch, replies, inbox, pc, handler, url, cmd, args, tmp, dir, output, files,
                 input, pending, inflight, results, sending, sent, result, calls>>

\* The read of a suspended call ends and the call returns: the kind the
\* signature of the bytes read gives, Unknown when the read failed or read
\* nothing.
ProbeAsyncRead ==
  /\ pc = "probe"
  /\ \E i \in 1..Len(probe.listing) :
       /\ probe.async[i] = "Reading"
       /\ probe' = [probe EXCEPT
            !.async[i] = detect_media_kind_async(Disk, probe.listing[i].name),
            !.done = IF \A j \in 1..Len(probe.listing) \ {i} :
                           probe.async[j] \in MediaKind
                     THEN @ \cup {"async"} ELSE @]
  /\ UNCHANGED <<runs, fs, accesses, classified, fetch, replies, inbox, pc, handler, url, cmd, args, tmp, dir, output, files,
                 input, pending, inflight, results, sending, sent, result, calls>>

\* The variables of the single-run pipeline.
pipeline == <<inbox, pc, handler, url, cmd, args, tmp, dir, output, files,
              input, pending, inflight, results, sending, sent, result, calls,
              replies, fetch, probe, classified>>

\* A message handled inline instead of in a task of its own: it is taken up
\* only when no other task is in flight.
RunTempdirSerial(r) ==
  /\ UNCHANGED pipeline
  /\ runs[r].pc = "start"
  /\ \A q \in 1..MaxRuns : q # r => runs[q].pc \in {"start", "done"}
  /\ \E d \in FreshDirs(fs) :
       /\ fs' = [fs EXCEPT ![d] = [exists |-> TRUE, owner |-> r, entries |-> {}]]
       /\ runs' = [runs EXCEPT ![r].cwd = d, ![r].pc = "running"]
  /\ UNCHANGED accesses

\* A task is spawned for a message; fetch_and_send creates its directory
\* and starts instaloader on it, or tempdir() fails and it returns the
\* error.
RunTempdir(r) ==
  /\ UNCHANGED pipeline
  /\ runs[r].pc = "start"
  /\ \/ \E d \in FreshDirs(fs) :
          /\ fs' = [fs EXCEPT ![d] = [exists |-> TRUE, owner |-> r, entries |-> {}]]
          /\ runs' = [runs EXCEPT ![r].cwd = d, ![r].pc = "running"]
     \/ /\ runs' = [runs EXCEPT ![r] = Returned("failed")]
        /\ fs' = fs
  /\ UNCHANGED accesses

\* instaloader writes its files into the directory and exits.
RunProcessExit(r) ==
  /\ UNCHANGED pipeline
  /\ runs[r].pc = "running"
  /\ \E out \in RunOutputs, st \in {0, 1} :
       /\ fs' = [fs EXCEPT ![runs[r].cwd].entries = @ \cup out]
       /\ runs' = [runs EXCEPT ![r].status = st, ![r].pc = "exited"]
  /\ UNCHANGED accesses

\* Starting or awaiting instaloader fails: fetch_and_send returns the error
\* and its directory is dropped.
RunSpawnFail(r) ==
  /\ UNCHANGED pipeline
  /\ runs[r].pc = "running"
  /\ accesses' = accesses \cup {Access(fs, r, "delete", runs[r].cwd)}
  /\ fs' = RemoveDir(fs, runs[r].cwd)
  /\ runs' = [runs EXCEPT ![r] = Returned("failed")]

\* Non-zero exit status: fetch_and_send returns an error and its directory
\* is dropped.
RunExitFailure(r) ==
  /\ UNCHANGED pipeline
  /\ runs[r].pc = "exited" /\ runs[r].status # 0
  /\ accesses' = accesses \cup {Access(fs, r, "delete", runs[r].cwd)}
  /\ fs' = RemoveDir(fs, runs[r].cwd)
  /\ runs' = [runs EXCEPT ![r] = Returned("failed")]

\* read_dir or one of its entries fails.
RunScanIoError(r) ==
  /\ UNCHANGED pipeline
  /\ runs[r].pc = "exited" /\ runs[r].status = 0
  /\ accesses' = accesses \cup {Access(fs, r, "list", runs[r].cwd),
                                 Access(fs, r, "delete", runs[r].cwd)}
  /\ fs' = RemoveDir(fs, runs[r].cwd)
  /\ runs' = [runs EXCEPT ![r] = Returned("failed")]

\* The directory is listed, in whatever order read_dir yields, and every
\* entry is tested; the retained paths stay in that order. The task fails
\* when there are none.
RunScan(r) ==
  /\ UNCHANGED pipeline
  /\ runs[r].pc = "exited" /\ runs[r].status = 0
  /\ \E order \in Orders(fs[runs[r].cwd].entries) :
       \E names \in {MediaFiles(order)} :
          IF names = <<>>
          THEN /\ accesses' = accesses \cup {Access(fs, r, "list", runs[r].cwd),
                                              Access(fs, r, "delete", runs[r].cwd)}
               /\ fs' = RemoveDir(fs, runs[r].cwd)
               /\ runs' = [runs EXCEPT ![r] = Returned("failed")]
          ELSE /\ accesses' = accesses \cup {Access(fs, r, "list", runs[r].cwd)}
               /\ fs' = fs
               /\ runs' = [runs EXCEPT
                    ![r].files = [i \in 1..Len(names) |->
                                    [dir |-> runs[r].cwd, name |-> names[i]]],
                    ![r].pc = "returned"]

\* The first video of the list is picked, or else the first image, or else
\* a text is sent instead of a file. The search opens the paths it passes
\* whose extension decides nothing.
RunSelect(r) ==
  /\ UNCHANGED pipeline
  /\ runs[r].pc = "returned"
  /\ \E fl \in {runs[r].files} :
     \E kinds \in {{<<k, main_detect_media_kind(fs[fl[k].dir].entries, fl[k].name)>> :
                       k \in 1..Len(fl)}} :
     \E v \in {FindIndex(kinds, Video)} :
     \E i \in {FindIndex(kinds, Image)} :
       /\ runs' = [runs EXCEPT
            ![r].winner = IF v > 0 THEN fl[v] ELSE IF i > 0 THEN fl[i] ELSE NoPath,
            ![r].method = IF v > 0 THEN "send_video"
                          ELSE IF i > 0 THEN "send_photo"
                          ELSE "No supported media found",
            ![r].pc = "sending"]
       /\ accesses' = accesses \cup
            {Access(fs, r, "read", fl[k].dir) :
               k \in {j \in 1..(IF v > 0 THEN v ELSE Len(fl)) :
                        kind_needs_magic(fl[j].name)}}
  /\ UNCHANGED fs

\* The request is handed to the transport, which reads the picked file;
\* the task then waits for the answer, its directory still on disk.
RunSend(r) ==
  /\ UNCHANGED pipeline
  /\ runs[r].pc = "sending"
  /\ accesses' = accesses
       \cup (IF runs[r].winner = NoPath THEN {}
             ELSE {Access(fs, r, "deliver", runs[r].winner.dir)})
  /\ runs' = [runs EXCEPT ![r].pc = "awaiting"]
  /\ UNCHANGED fs

\* fetch_and_send returned an error: the task hands the failure text to
\* the transport and waits for the answer.
RunReplyFailed(r) ==
  /\ UNCHANGED pipeline
  /\ runs[r].pc = "failed"
  /\ runs' = [runs EXCEPT ![r].pc = "replying",
                          ![r].method = "Failed to fetch Instagram media."]
  /\ UNCHANGED <<fs, accesses>>

\* The transport answers the request a task waits on. Inside
\* fetch_and_send the function returns, with the transport's error if the
\* request failed, and its directory is dropped; after the failure text the
\* outcome is ignored and the task ends.
RunAnswer(r) ==
  /\ UNCHANGED pipeline
  /\ \/ /\ runs[r].pc = "awaiting"
        /\ accesses' = accesses \cup {Access(fs, r, "delete", runs[r].cwd)}
        /\ fs' = RemoveDir(fs, runs[r].cwd)
        /\ \/ runs' = [runs EXCEPT ![r] =
                  [Returned("done") EXCEPT
                     !.reply = [method |-> runs[r].method,
                                file |-> runs[r].winner.name]]]
           \/ runs' = [runs EXCEPT ![r] = Returned("failed")]
     \/ /\ runs[r].pc = "replying"
        /\ runs' = [runs EXCEPT ![r] =
             [Returned("done") EXCEPT
                !.reply = [method |-> runs[r].method, file |-> <<>>]]]
        /\ UNCHANGED <<fs, accesses>>

\* ------------------------------------------------------- specifications
NextRuns ==
  \E r \in 1..MaxRuns :
    \/ RunTempdir(r)
    \/ RunProcessExit(r) \/ RunSpawnFail(r) \/ RunExitFailure(r)
    \/ RunScanIoError(r) \/ RunScan(r) \/ RunSelect(r) \/ RunSend(r)
    \/ RunReplyFailed(r) \/ RunAnswer(r)

NextProbe ==
  \/ ProbeFilter \/ ProbeBlocking
  \/ ProbeAsyncCall \/ ProbeAsyncOpen \/ ProbeAsyncRead

NextSelect == ProcessStart \/ TaskComplete \/ Select \/ SendOk \/ SendFail

Next ==
  \/ Dispatch \/ CallHandle
  \/ FetchSpawn \/ FetchTempdirFail \/ FetchSpawnFail
  \/ ProcessExit \/ RunnerExitFailure \/ ScanIoError \/ Scan
  \/ NextSelect

\* One message through the whole pipeline.
Spec == Init /\ [][Next]_vars

\* process_download_result on every bounded DownloadResult.
SpecSelect == InitSelect /\ [][NextSelect]_vars

\* process_download_result on file lists longer than the concurrency
\* ceiling.
SpecFanOut == InitFanOut /\ [][NextSelect]_vars

\* Several messages handled at once, each by its own task running
\* fetch_and_send.
SpecRuns == InitRuns /\ [][NextRuns]_vars

\* A step of task r that the task takes once it is polled: every step but
\* the return of the wait for the external process and the answer of the
\* transport.
RunStep(r) ==
  \/ RunTempdir(r) \/ RunExitFailure(r)
  \/ RunScanIoError(r) \/ RunScan(r) \/ RunSelect(r) \/ RunSend(r)
  \/ RunReplyFailed(r)

\* The scheduler runs every task that can take a step; the exit of the
\* external process and the answer of the transport may never come.
FairRuns == \A r \in 1..MaxRuns : WF_vars(RunStep(r))

\* Concurrent runs under fair scheduling.
SpecRunsFair == InitRuns /\ [][NextRuns]_vars /\ FairRuns

\* The pre-filter and the two classifiers on every probed directory.
SpecProbe == InitProbe /\ [][NextProbe]_vars

\* ====================================================================
\* Properties
\* ====================================================================

\* The entry of the workspace named p, if it is a regular non-empty file.
RegularNonEmpty(p) ==
  \E e \in dir : e.name = p /\ e.type = "file" /\ e.len > 0

\* The paths of the input list that are regular, non-empty files classified k.
Survivors(k) ==
  {p \in Range(input) : RegularNonEmpty(p) /\ detect_media_kind_async(dir, p) = k}

\* C1 (kind preference): when the file list handed to
\* process_download_result holds at least one regular, non-empty file
\* classified Video, the one file delivered is a Video, for every order of
\* the list and every completion order of the classification tasks.
C1_KindPreference ==
  (pc \in {"sending", "done"} /\ calls.process = 1 /\ Survivors(Video) # {})
    => /\ Len(sent) = 1
       /\ sent[1].kind = Video
       /\ sent[1].path \in Survivors(Video)

\* An image precedes the video in the list and in path order, and the video
\* was delivered.
C1_Witness ==
  /\ pc = "done" /\ result = Ok
  /\ Len(input) >= 2
  /\ input[1] \in Survivors(Image)
  /\ \E v \in Survivors(Video) : PathLess(input[1], v)
  /\ Len(sent) = 1 /\ sent[1].kind = Video

\* The least path of a non-empty set of paths.
LeastPath(S) == CHOOSE p \in S : \A q \in S : p = q \/ PathLess(p, q)

\* C2 (tie-break and determinism): the delivered path is the least path, in
\* lexicographic order, among the surviving candidates of the delivered
\* kind; the delivered (path, kind) is a function of the set of files alone,
\* so it is the same for every completion order of the classification.
C2_TieBreakDeterministic ==
  (pc \in {"sending", "done"} /\ sent # <<>>)
    => LET k == IF Survivors(Video) # {} THEN Video ELSE Image
       IN /\ Survivors(k) # {}
          /\ sent[1].kind = k
          /\ sent[1].path = LeastPath(Survivors(k))

\* Two survivors of the delivered kind, the greater one first in the list,
\* and the lesser one was delivered.
C2_Witness ==
  /\ pc = "done"
  /\ Len(sent) = 1
  /\ Cardinality(Survivors(sent[1].kind)) >= 2
  /\ input[1] \in Survivors(sent[1].kind)
  /\ PathLess(sent[1].path, input[1])

\* C3 (workspace cleanup): once the run has returned, on every exit path,
\* the workspace directory created for it no longer exists.
C3_WorkspaceCleanup ==
  pc = "done" => tmp # "exists"

\* A run whose delivery failed has removed its workspace.
C3_Witness ==
  /\ pc = "done" /\ result.tag = "Teloxide"
  /\ calls.fetch = 1 /\ tmp = "removed"

\* C4 (workspace lifetime): while a file of the DownloadResult is being
\* classified, metadata-checked or sent, the workspace exists; it is gone
\* only once the run has returned.
C4_WorkspaceLifetime ==
  /\ (pc \in {"returned", "classify", "sending"} \/ inflight # {})
       => tmp = "exists"
  /\ tmp = "removed" => pc = "done"

\* A delivery request is in flight and the workspace is on disk.
C4_Witness ==
  /\ pc = "sending" /\ sending.kind = Video
  /\ calls.fetch = 1 /\ tmp = "exists"

ExitedNonZero == pc = "done" /\ output.status > 0

\* C5 as stated (fetch tool failure): whenever the external executable
\* exits with a non-zero status, the run fails with YTDLPFailed carrying the
\* trimmed captured stderr text, whatever that text is.
C5_Original ==
  ExitedNonZero => result = [tag |-> "YTDLPFailed", text |-> Trim(output.stderr)]

\* C5 as amended: on a non-zero exit the run fails with YTDLPFailed carrying
\* the trimmed stderr text when that text is not empty, and with the generic
\* Other error "yt-dlp failed: " when the trimmed text is empty.
C5_FetchFailure ==
  ExitedNonZero =>
    /\ result.tag \in {"YTDLPFailed", "Other"}
    /\ result.tag = "YTDLPFailed"
         <=> \E i \in 1..Len(output.stderr) : ~IsSpace(output.stderr[i])
    /\ result.tag = "YTDLPFailed"
         => /\ result.text = Trim(output.stderr)
            /\ ~IsSpace(result.text[1]) /\ ~IsSpace(result.text[Len(result.text)])
    /\ result.tag = "Other" => result.text = <<"y","t","-","d","l","p"," ","f","a","i","l","e","d",":"," ">>

\* The tool exited 1 with " rate limited\n" on stderr and the run failed
\* with YTDLPFailed("rate limited").
C5_Witness ==
  /\ pc = "done" /\ output.status = 1
  /\ output.stderr = <<" ","r","a","t","e"," ","l","i","m","i","t","e","d","\n">>
  /\ result = [tag |-> "YTDLPFailed", text |-> <<"r","a","t","e"," ","l","i","m","i","t","e","d">>]

\* The handlers in the order create_handlers registers them.
Registration == <<"instagram", "youtube", "twitter", "tiktok">>

\* Indexes, in registration order, of the handlers whose pattern matches.
Matching(text) ==
  {i \in 1..Len(Registration) : try_extract(Registration[i], text) # NoMatch}

\* C6 (first match wins): a message is routed to the first handler in
\* registration order whose pattern matches, to none when no pattern
\* matches, and no message starts more than one fetch.
C6_FirstMatchWins ==
  /\ pc = "dispatched" =>
       /\ Matching(Head(inbox)) # {}
       /\ handler = Registration[SetMin(Matching(Head(inbox)))]
       /\ url = try_extract(handler, Head(inbox))
  /\ pc = "ignored" =>
       /\ Matching(Head(inbox)) = {}
       /\ handler = NoHandler
       /\ calls.fetch = 0
  /\ calls.fetch <= 1

\* The text matches the twitter and the youtube pattern, the twitter URL
\* comes first in the text, and the message went to youtube.
C6_Witness ==
  /\ pc = "dispatched"
  /\ Matching(Head(inbox)) = {2, 3}
  /\ \E n \in 1..Len(Head(inbox)) :
       try_extract("twitter", SubSeq(Head(inbox), 1, n)) # NoMatch
       /\ try_extract("youtube", SubSeq(Head(inbox), 1, n)) = NoMatch
  /\ handler = "youtube"

\* C7 (stage order, no retry): in one run the fetch is called once,
\* process_download_result only after the fetch returned a DownloadResult,
\* the delivery only after a winner was selected; a failed stage ends the run
\* with its error, no later stage runs and no stage runs twice.
C7_StageOrder ==
  /\ calls.fetch <= 1 /\ calls.run <= 1 /\ calls.process <= 1
  /\ calls.deliver <= 1 /\ Len(sent) = calls.deliver
  /\ calls.process = 1 =>
       /\ calls.fetch = 1 /\ output.status = 0
       /\ \E e \in dir : is_potential_media_file(e.name)
  /\ calls.deliver = 1 =>
       /\ calls.process = 1
       /\ sent[1].kind \in {Video, Image}
  /\ pc = "done" <=> result # Pending
  /\ pc = "done" => calls.fetch = 1
  /\ result.tag \in {"Io", "YTDLPFailed", "Other"} =>
       calls.process = 0 /\ calls.deliver = 0
  /\ result.tag = "NoMediaFound" => calls.deliver = 0
  /\ result.tag \in {"Ok", "Teloxide"} => calls.deliver = 1

\* The delivery failed: every stage ran exactly once and the run ended with
\* the transport error.
C7_Witness ==
  /\ pc = "done" /\ result.tag = "Teloxide"
  /\ calls = [fetch |-> 1, run |-> 1, scan |-> 1, process |-> 1, deliver |-> 1]

\* C8 (selection outcome): a completed process_download_result either made
\* exactly one delivery call, with kind Video or Image, or made none and
\* returned NoMediaFound; the delivery is never called with kind Unknown and
\* the result is never UnknownMediaKind.
C8_SelectionOutcome ==
  /\ Len(sent) <= 1
  /\ \A i \in 1..Len(sent) : sent[i].kind \in {Video, Image}
  /\ result.tag # "UnknownMediaKind"
  /\ pc = "done" =>
       \/ /\ Len(sent) = 1
          /\ result.tag \in {"Ok", "Teloxide"}
       \/ /\ sent = <<>>
          /\ result.tag = "NoMediaFound"

\* Every file of the list was classified Unknown (content that is neither
\* video nor image) and the call ended with NoMediaFound, nothing sent.
C8_Witness ==
  /\ pc = "done" /\ calls.process = 1
  /\ input # <<>>
  /\ \A p \in Range(input) : detect_media_kind_async(dir, p) = Unknown
  /\ sent = <<>> /\ result.tag = "NoMediaFound"

\* C9 (selector failure condition): process_download_result fails with
\* NoMediaFound, without a delivery call, exactly when no file of the input
\* list is a regular, non-empty file classified Video or Image (the empty
\* list included); a delivered file passed all three checks.
C9_NoMediaExactly ==
  /\ (pc = "done" /\ calls.process = 1) =>
       ((result.tag = "NoMediaFound" /\ sent = <<>>)
          <=> Survivors(Video) \cup Survivors(Image) = {})
  /\ \A i \in 1..Len(sent) :
       sent[i].path \in Survivors(Video) \cup Survivors(Image)

\* The list names only an empty file and a directory, both with a video
\* extension: NoMediaFound, nothing sent.
C9_Witness ==
  /\ pc = "done" /\ calls.process = 1
  /\ Len(input) = 2
  /\ \A p \in Range(input) :
       detect_media_kind_async(dir, p) = Video /\ ~RegularNonEmpty(p)
  /\ \E e \in dir : e.type = "dir"
  /\ \E e \in dir : e.type = "file" /\ e.len = 0
  /\ result.tag = "NoMediaFound" /\ sent = <<>>

NothingRetained == \A e \in dir : ~is_potential_media_file(e.name)

\* C10 as stated (runner with nothing retained): when the tool exits 0 and
\* no directory entry passes the pre-filter, the runner fails with
\* NoMediaFound.
C10_Original ==
  (pc = "done" /\ output.status = 0 /\ NothingRetained)
    => result.tag = "NoMediaFound"

\* C10 as amended: when the tool exits 0 and no directory entry passes the
\* pre-filter, the runner returns no DownloadResult: it fails with
\* NoMediaFound, or with Io when the directory scan itself fails; every
\* DownloadResult it returns has a non-empty file list.
C10_NothingRetained ==
  /\ (pc = "done" /\ output.status = 0 /\ NothingRetained) =>
       /\ result.tag \in {"NoMediaFound", "Io"}
       /\ calls.process = 0
  /\ (output.status = 0 /\ NothingRetained) => pc \in {"exited", "done"}
  /\ pc = "returned" => files # <<>>

\* The tool exited 0 leaving only entries the pre-filter rejects, and the
\* runner failed with NoMediaFound before any classification.
C10_Witness ==
  /\ pc = "done" /\ output.status = 0
  /\ dir # {} /\ NothingRetained
  /\ result.tag = "NoMediaFound" /\ calls.process = 0

\* The extension sets as sets of lower-case texts.
VideoSet == Range(VIDEO_EXTSTENSIONS)
ImageSet == Range(IMAGE_EXTSTENSIONS)
ForbiddenSet == {<<"j","s","o","n">>, <<"t","x","t">>, <<"l","o","g">>}

\* The three conditions of the pre-filter, stated on a file name.
PassesPreFilter(name) ==
  /\ name[1] # "."
  /\ \A p \in 0..Len(name) :
       ~HasAt(ToLower(name), p, <<"m","e","t","a","d","a","t","a">>)
  /\ IF Extension(name) = NoExt THEN FALSE
     ELSE /\ ToLower(Extension(name)) \in VideoSet \cup ImageSet
          /\ ToLower(Extension(name)) \notin ForbiddenSet

\* C11 (pre-filter predicate): a listed path is retained if and only if its
\* name does not start with '.', its lower-cased name does not contain
\* "metadata", and its extension, ignoring case, is a video or image
\* extension and not a forbidden one; each retained path is retained once;
\* of a.json, b.log and clip.mp4 exactly clip.mp4 is retained.
C11_PreFilterPredicate ==
  "filter" \in probe.done =>
    /\ Range(probe.retained) = {e.name : e \in {x \in dir : PassesPreFilter(x.name)}}
    /\ Len(probe.retained) = Cardinality(Range(probe.retained))
    /\ dir = {E_a_json, E_b_log, E_clip_mp4} => probe.retained = <<E_clip_mp4.name>>

\* The directory holding a.json, b.log and clip.mp4 was listed with
\* clip.mp4 last, and the pre-filter retained clip.mp4 alone.
C11_Witness ==
  /\ "filter" \in probe.done
  /\ probe.listing = <<E_a_json, E_b_log, E_clip_mp4>>
  /\ probe.retained = <<E_clip_mp4.name>>

\* Whether the extension of a name, with A-Z lower-cased, is in a set of
\* extensions.
ExtensionIn(name, S) ==
  IF Extension(name) = NoExt THEN FALSE ELSE ToAsciiLower(Extension(name)) \in S

\* C12 (classification by extension): both classifiers return Video for
\* every path whose extension is, ignoring case, a video extension and Image
\* for every path whose extension is an image extension, whatever is on disk
\* under the path; the paths a classifier opens for content sniffing are
\* exactly those with another or no extension.
C12_ByExtension ==
  \A i \in 1..Len(probe.listing) :
    LET n == probe.listing[i].name
    IN /\ "blocking" \in probe.done =>
            /\ ExtensionIn(n, VideoSet) => probe.blocking[i] = Video
            /\ ExtensionIn(n, ImageSet) => probe.blocking[i] = Image
       /\ "async" \in probe.done =>
            /\ ExtensionIn(n, VideoSet) => probe.async[i] = Video
            /\ ExtensionIn(n, ImageSet) => probe.async[i] = Image
       /\ probe.done \cap {"blocking", "async"} # {} =>
            (n \in probe.opened <=> ~ExtensionIn(n, VideoSet \cup ImageSet))

\* A name ending in .JPG with nothing on disk under it: both classifiers
\* answered Image and neither opened it.
C12_Witness ==
  /\ {"blocking", "async"} \subseteq probe.done
  /\ Len(probe.listing) = 1
  /\ ExtensionIn(probe.listing[1].name, {<<"j","p","g">>})
  /\ Extension(probe.listing[1].name) = <<"J","P","G">>
  /\ probe.listing[1].type = "missing"
  /\ probe.blocking = <<Image>> /\ probe.async = <<Image>>
  /\ probe.opened = {}

\* A listed path under which no regular file is on disk: opening it, or
\* reading from it, fails.
Unreadable(e) == e.type # "file"

\* C13 as stated (classifier totality): for every path whose file cannot be
\* opened or read, the classifier returns Unknown.
C13_Original ==
  \A i \in 1..Len(probe.listing) :
    /\ ("blocking" \in probe.done /\ Unreadable(probe.listing[i]))
         => probe.blocking[i] = Unknown
    /\ ("async" \in probe.done /\ Unreadable(probe.listing[i]))
         => probe.async[i] = Unknown

\* C13 as amended: both classifiers always answer with a media kind, never
\* with an error; for every path whose extension is neither a video nor an
\* image extension and whose file cannot be opened or read, the answer is
\* Unknown.
C13_Totality ==
  \A i \in 1..Len(probe.listing) :
    LET e == probe.listing[i]
        sniffed == ~ExtensionIn(e.name, VideoSet \cup ImageSet)
    IN /\ "blocking" \in probe.done =>
            /\ probe.blocking[i] \in MediaKind
            /\ (sniffed /\ Unreadable(e)) => probe.blocking[i] = Unknown
       /\ "async" \in probe.done =>
            /\ probe.async[i] \in MediaKind
            /\ (sniffed /\ Unreadable(e)) => probe.async[i] = Unknown

\* A directory named with the extension pdf was opened by both classifiers
\* and both answered Unknown.
C13_Witness ==
  /\ {"blocking", "async"} \subseteq probe.done
  /\ Len(probe.listing) = 1
  /\ ExtensionIn(probe.listing[1].name, {<<"p","d","f">>})
  /\ probe.listing[1].type = "dir"
  /\ probe.listing[1].name \in probe.opened
  /\ probe.blocking = <<Unknown>> /\ probe.async = <<Unknown>>

\* C14 (transport failure): a Video winner is sent with send_video and an
\* Image winner with send_photo; when the transport answers the one delivery
\* request with an error, the run ends with the Teloxide error, and no
\* second request is made, neither for the same file nor for another
\* candidate.
C14_TransportFailure ==
  /\ \A i \in 1..Len(sent) :
       /\ sent[i].kind = Video => sent[i].method = "send_video"
       /\ sent[i].kind = Image => sent[i].method = "send_photo"
  /\ Len(replies) <= Len(sent) /\ Len(sent) <= 1
  /\ (pc = "done" /\ replies = <<"error">>) => result = Err("Teloxide", <<>>)
  /\ result.tag = "Teloxide" => (replies = <<"error">> /\ Len(sent) = 1)
  /\ replies # <<>> => (pc = "done" /\ sending = NoSend)

\* A video and an image both survived, the video was sent with send_video,
\* the transport answered with an error, and the run ended with the
\* Teloxide error without a request for the image.
C14_Witness ==
  /\ pc = "done" /\ calls.fetch = 1
  /\ Survivors(Video) # {} /\ Survivors(Image) # {}
  /\ Len(sent) = 1 /\ sent[1].method = "send_video"
  /\ replies = <<"error">>
  /\ result.tag = "Teloxide"

\* The fixed leading arguments of each platform's fetch function.
BaseArgs(platform) ==
  CASE platform = "instagram" ->
         <<FlagArg("-t"), FlagArg("mp4"), FlagArg("--extractor-args"), FlagArg("instagram:")>>
    [] platform = "tiktok" ->
         <<FlagArg("-t"), FlagArg("mp4"), FlagArg("--extractor-args"), FlagArg("tiktok:")>>
    [] platform = "twitter" ->
         <<FlagArg("-t"), FlagArg("mp4"), FlagArg("--extractor-args"), FlagArg("twitter:")>>
    [] platform = "youtube" ->
         <<FlagArg("--no-playlist"), FlagArg("-t"), FlagArg("mp4"),
           FlagArg("--restrict-filenames"), FlagArg("-o"), FlagArg("%(title)s.%(ext)s"),
           FlagArg("--postprocessor-args"),
           FlagArg("ffmpeg:-vf setsar=1 -c:v libx264 -crf 20 -preset veryfast -c:a aac -b:a 128k -movflags +faststart")>>

\* C15 (fetch invocation profile): while yt-dlp runs for a platform, its
\* argument list is that platform's base arguments, then --cookies and the
\* path exactly when the platform's session-cookie variable names one, then
\* the target URL as the last argument.
C15_Original ==
  pc = "running" =>
    args = BaseArgs(fetch.platform)
             \o (IF fetch.cookie = NoCookie THEN <<>>
                 ELSE <<FlagArg("--cookies"), FlagArg(fetch.cookie)>>)
             \o <<TextArg(fetch.url)>>

\* C16 (retained files are regular files): every path in the file list of
\* a returned DownloadResult is a regular file of the workspace. The scan
\* tests the name only, so a directory named d.webm enters the list.
C16_Original ==
  pc = "returned" =>
    \A i \in 1..Len(files) : \E e \in dir : e.name = files[i] /\ e.type = "file"

\* C17 (scan only after success): the workspace is listed only when the
\* external process exited with status 0; after a non-zero exit the run
\* fails with the exit failure, the workspace is not listed, no file list is
\* returned, nothing is classified and nothing is delivered, whatever the
\* workspace holds.
C17_ScanAfterSuccess ==
  /\ calls.scan >= 1 => output.status = 0
  /\ pc \in {"recv", "dispatched", "ignored", "handle", "running"} => calls.scan = 0
  /\ output.status > 0 =>
       /\ calls.scan = 0 /\ calls.process = 0 /\ calls.deliver = 0
       /\ files = <<>> /\ sent = <<>>
       /\ pc \in {"exited", "done"}
       /\ pc = "done" => result.tag \in {"YTDLPFailed", "Other"}

\* The tool exited 1 leaving a regular, non-empty clip.mp4 in the workspace:
\* the run failed without listing the workspace and without a delivery.
C17_Witness ==
  /\ pc = "done" /\ output.status = 1
  /\ E_clip_mp4 \in dir
  /\ calls.scan = 0 /\ sent = <<>>
  /\ result.tag = "YTDLPFailed"

\* C18 (sorted file list): the file list of every returned DownloadResult
\* is in strictly ascending byte-wise path order, for every order in which
\* the directory enumeration yields the entries.
C18_SortedFileList ==
  pc = "returned" =>
    \A i \in 1..Len(files), j \in 1..Len(files) :
      i < j => PathLess(files[i], files[j])

\* A returned list of three paths in which the upper-case B.MP4 comes first.
C18_Witness ==
  /\ pc = "returned" /\ calls.scan = 1
  /\ Len(files) = 3
  /\ files[1] = E_B_MP4.name
  /\ IsLowerAlpha(files[2][1])

\* C19 (bounded fan-out): while process_download_result classifies n >= 1
\* files, at most min(8, n) classification tasks are in flight; no file is
\* classified twice, a file is classified once its task is neither waiting
\* nor in flight, and selection starts only when every one of the n files
\* has been classified exactly once.
C19_BoundedFanOut ==
  /\ Cardinality(inflight) <= Min(8, Len(input))
  /\ inflight # {} => pc = "classify"
  /\ pc = "classify" =>
       /\ Len(input) >= 1
       /\ \A p \in Range(input) :
            classified[p] = IF p \in inflight \cup Range(pending) THEN 0 ELSE 1
       /\ inflight \cap Range(pending) = {}
       /\ Len(results) + Cardinality(inflight) + Len(pending) = Len(input)
  /\ (pc \in {"sending", "done"} /\ input # <<>>) =>
       /\ \A p \in Range(input) : classified[p] = 1
       /\ inflight = {} /\ pending = <<>>

\* Nine files are being classified: eight tasks are in flight, the ninth
\* file waits, and nothing has completed yet.
C19_Witness ==
  /\ pc = "classify" /\ Len(input) = 9
  /\ Cardinality(inflight) = 8 /\ Len(pending) = 1
  /\ results = <<>>

\* The runs that hold a workspace: created and not yet dropped.
Holding ==
  {r \in 1..MaxRuns : runs[r].pc \notin {"start", "failed", "replying", "done"}}

\* C20 (workspace exclusivity): two runs in flight at the same time have
\* distinct workspace directories, each owned by the run that created it;
\* every path of a run's file list, and its winner, lies in that run's own
\* workspace; every listing, read, delivery and removal a run performed
\* touched a directory that was its own at that moment.
C20_WorkspaceExclusivity ==
  /\ \A r1 \in Holding, r2 \in Holding : r1 # r2 => runs[r1].cwd # runs[r2].cwd
  /\ \A r \in Holding :
       /\ fs[runs[r].cwd].exists /\ fs[runs[r].cwd].owner = r
       /\ \A i \in 1..Len(runs[r].files) : runs[r].files[i].dir = runs[r].cwd
       /\ runs[r].pc \in {"sending", "awaiting"} =>
            runs[r].winner.dir = runs[r].cwd
  /\ \A a \in accesses : a.owner = a.run

\* Two runs are in flight with a file list each, in different directories,
\* both on disk: run 1 has handed its file to the transport and waits for
\* the answer, run 2 has meanwhile listed its own directory.
C20_Witness ==
  /\ runs[1].pc = "awaiting" /\ runs[2].pc = "returned"
  /\ runs[1].cwd # runs[2].cwd
  /\ fs[runs[1].cwd].exists /\ fs[runs[2].cwd].exists
  /\ runs[1].files # <<>> /\ runs[2].files # <<>>
  /\ \E a \in accesses : a.run = 1 /\ a.op = "deliver"
  /\ \E a \in accesses : a.run = 2 /\ a.op = "list"

\* C21 (termination and independence of runs): under fair scheduling every
\* run ends up, for good, either finished or waiting on an event of its own,
\* the exit of its external process or the answer to its request, whatever
\* the other runs do, also when one of them waits forever; so a run whose
\* external process exits and whose delivery call returns finishes.
C21_TerminationIndependence ==
  \A r \in 1..MaxRuns :
    <>[](runs[r].pc \in {"running", "awaiting", "replying", "done"})

\* Run 1 has delivered and finished while run 2 still waits for its
\* external process.
C21_Witness ==
  /\ runs[1].pc = "done"
  /\ runs[1].reply.method \in {"send_video", "send_photo"}
  /\ \E a \in accesses : a.run = 1 /\ a.op = "deliver"
  /\ runs[2].pc = "running"

\* C22 (variant agreement): on every path, whatever its name, its extension,
\* what is on disk under it (a readable file of any content, an empty file,
\* a directory, nothing) and whatever MIME type the signature probe
\* detects, the blocking and the asynchronous classifier return the same
\* kind.
C22_VariantAgreement ==
  {"blocking", "async"} \subseteq probe.done => probe.blocking = probe.async

\* Both classifiers have run on a path whose extension decides nothing and
\* whose content the signature probe reports as video: both went on to the
\* content step and answered Video.
C22_Witness ==
  /\ {"blocking", "async"} \subseteq probe.done
  /\ \E i \in 1..Len(probe.listing) :
       /\ Sniffs(probe.listing[i].name)
       /\ probe.listing[i].name \in probe.opened
       /\ probe.blocking[i] = Video /\ probe.async[i] = Video

\* The paths handed to the classifier in this run, and the names of the
\* workspace entries whose extension is in neither media set.
Handed == DOMAIN classified
Unlisted == {e.name : e \in {x \in dir : ~ExtensionIn(x.name, VideoSet \cup ImageSet)}}

\* Whether the extension of a name, lower-cased as str::to_lowercase does
\* it, is in a set of extensions.
LowersInto(name, S) ==
  IF Extension(name) = NoExt THEN FALSE ELSE ToLower(Extension(name)) \in S

\* C23 as stated (the extension decides in the pipeline): in a run of the
\* whole pipeline every path handed to the classifier has an extension of
\* the video or image set, so the classifier answers from the extension and
\* does not go on to read the content; and no workspace entry without such
\* an extension is ever handed to the delivery, whatever its content.
C23_Original ==
  /\ \A p \in Handed \cup inflight \cup Range(pending) \cup Range(input) :
       /\ ExtensionIn(p, VideoSet \cup ImageSet)
       /\ ~Sniffs(p)
       /\ detect_media_kind_async(Disk, p) = KindByExtension(p)
  /\ \A i \in 1..Len(results) :
       results[i].some => ExtensionIn(results[i].path, VideoSet \cup ImageSet)
  /\ \A i \in 1..Len(sent) : sent[i].path \notin Unlisted

\* C23 as amended: in a run of the whole pipeline every path handed to the
\* classifier has an extension whose lower case, as str::to_lowercase gives
\* it, is in the video or image set; the classifier answers from the
\* extension, without reading the content, exactly when the extension is in
\* the set once A-Z alone are lower-cased, and reads the content of every
\* other handed path (an extension spelled with KELVIN SIGN); no workspace
\* entry whose lower-cased extension is outside the sets, or which has none,
\* is ever classified or delivered, whatever its content.
C23_ExtensionDecides ==
  /\ \A p \in Handed \cup inflight \cup Range(pending) \cup Range(input) :
       /\ LowersInto(p, VideoSet \cup ImageSet)
       /\ Sniffs(p) <=> ~ExtensionIn(p, VideoSet \cup ImageSet)
       /\ ExtensionIn(p, VideoSet \cup ImageSet) =>
            detect_media_kind_async(Disk, p) = KindByExtension(p)
  /\ \A i \in 1..Len(results) :
       results[i].some => LowersInto(results[i].path, VideoSet \cup ImageSet)
  /\ \A i \in 1..Len(sent) : LowersInto(sent[i].path, VideoSet \cup ImageSet)

\* A run has ended after delivering, as a video, a file whose extension is
\* mkv spelled with KELVIN SIGN: the classifier read its content; a file of
\* video content and no extension and a file of image content and an
\* unlisted extension were in the workspace and were not handed on.
C23_Witness ==
  /\ pc = "done" /\ result = Ok
  /\ dir = {E_x_mKv, E_noext, E_raw_bin}
  /\ Handed = {E_x_mKv.name}
  /\ Sniffs(E_x_mKv.name)
  /\ Len(sent) = 1 /\ sent[1].path = E_x_mKv.name /\ sent[1].kind = Video

====
